---- MODULE Spec2Model ----
(***************************************************************************)
(* Healthcare Symptom Checker backend (FastAPI + Gemini + SQLite).         *)
(*                                                                         *)
(* Text is a sequence of one-character strings, so that startswith,       *)
(* endswith, slicing, strip and JSON parsing are computed character by     *)
(* character.  A fixed message of the program is kept as a single symbol.  *)
(* JSON values are tagged records [t |-> tag, v |-> payload].              *)
(***************************************************************************)
EXTENDS Integers, Sequences, FiniteSets, TLC

VARIABLES
    \* ---- llm_client.get_symptom_analysis, driven to completion ----
    llm_pc,          \* "idle" before the call, "done" after it returned
    backend,         \* what model.generate_content / response.text did
    response_text,   \* the text the fence-stripping was last applied to
    strips,          \* how many times the fence-stripping was applied to it
    analysis,        \* the dict the function returned
    \* ---- the service process ----
    entry,           \* "script": start_backend.py, "direct": app.py itself
    api_key,         \* GEMINI_API_KEY: "absent", "empty" (set to "") or "set"
    files_exist,     \* whether the three backend files are where the script looks
    srv_pc,          \* where startup stands, "serving" once uvicorn runs
    passed,          \* the startup checks passed so far, in order
    \* ---- database.py ----
    store,           \* the rows of table queries, in insertion order
    next_id,         \* the id AUTOINCREMENT gives the next row
    clock,           \* CURRENT_TIMESTAMP, in whole seconds
    \* ---- the last operation ----
    call,            \* its inputs
    resp,            \* what it returned
    \* ---- the prompt get_symptom_analysis builds ----
    prompt_args,     \* the arguments it was built from
    prompt,          \* the prompt, <<>> before any was built
    \* ---- POST /analyze requests in flight on the event loop ----
    tasks            \* per request: where it stands, its inputs, its response

llm_vars == <<llm_pc, backend, response_text, strips, analysis>>
env_vars == <<entry, api_key, files_exist>>
srv_vars == <<srv_pc, passed>>
db_vars == <<store, next_id, clock>>
op_vars == <<call, resp>>
prompt_vars == <<prompt_args, prompt>>
conc_vars == <<tasks>>
vars == <<llm_vars, env_vars, srv_vars, db_vars, op_vars, prompt_vars, conc_vars>>

(***************************************************************************)
(* Bounds                                                                  *)
(***************************************************************************)
MaxLeadPieces == 2      \* pieces (fence markers, blanks) put before a body
MaxTrailPieces == 1     \* pieces put after a body
MaxStrips == 2          \* re-applications of the fence-stripping
MaxRecords == 2         \* rows the store is filled with
MaxClock == 1           \* seconds the clock advances
MaxTasks == 2           \* POST /analyze requests in flight at once

(***************************************************************************)
(* Text helpers: str.strip, str.startswith, str.endswith                    *)
(***************************************************************************)
Whitespace == {" ", "\n", "\t", "\r"}

RECURSIVE lstrip(_)
lstrip(s) ==
    IF Len(s) > 0 /\ Head(s) \in Whitespace THEN lstrip(Tail(s)) ELSE s

RECURSIVE rstrip(_)
rstrip(s) ==
    IF Len(s) > 0 /\ s[Len(s)] \in Whitespace
    THEN rstrip(SubSeq(s, 1, Len(s) - 1))
    ELSE s

strip(s) == rstrip(lstrip(s))

startswith(s, p) == Len(s) >= Len(p) /\ SubSeq(s, 1, Len(p)) = p

endswith(s, p) == Len(s) >= Len(p) /\ SubSeq(s, Len(s) - Len(p) + 1, Len(s)) = p

\* needle in haystack, for two str operands
IsSubstring(needle, hay) ==
    \E i \in 1..(Len(hay) - Len(needle) + 1) :
        SubSeq(hay, i, i + Len(needle) - 1) = needle

\* the grave accent character (a TLA+ string cannot hold it)
BACKTICK == "BACKTICK"

FENCE == <<BACKTICK, BACKTICK, BACKTICK>>
FENCE_JSON == <<BACKTICK, BACKTICK, BACKTICK, "j", "s", "o", "n">>

\* llm_client.py 86-95: strip, drop a leading FENCE_JSON, drop a leading
\* FENCE, drop a trailing FENCE, strip.  The three tests are independent ifs.
strip_code_fences(text) ==
    LET t0 == strip(text)
        t1 == IF startswith(t0, FENCE_JSON) THEN SubSeq(t0, 8, Len(t0)) ELSE t0
        t2 == IF startswith(t1, FENCE) THEN SubSeq(t1, 4, Len(t1)) ELSE t1
        t3 == IF endswith(t2, FENCE) THEN SubSeq(t2, 1, Len(t2) - 3) ELSE t2
    IN  strip(t3)

(***************************************************************************)
(* JSON values                                                             *)
(***************************************************************************)
JStr(s) == [t |-> "str", v |-> s]
JNum(n) == [t |-> "num", v |-> n]
JNull == [t |-> "null", v |-> 0]
JBool(b) == [t |-> "bool", v |-> b]
JList(xs) == [t |-> "list", v |-> xs]
JObj(pairs) == [t |-> "obj", v |-> pairs]      \* pairs: <<key text, value>>

K_CONDITIONS == <<"c", "o", "n", "d", "i", "t", "i", "o", "n", "s">>
K_RECOMMENDATIONS ==
    <<"r", "e", "c", "o", "m", "m", "e", "n", "d", "a", "t", "i", "o", "n", "s">>

Digits == <<"0", "1", "2", "3", "4", "5", "6", "7", "8", "9">>
IsDigit(c) == \E d \in 1..10 : Digits[d] = c
DigitValue(c) == (CHOOSE d \in 1..10 : Digits[d] = c) - 1

\* ---- json.loads: a recursive-descent parser over the characters ----
ParseFail == [ok |-> FALSE, val |-> JNull, pos |-> 0]
ParseOk(val, pos) == [ok |-> TRUE, val |-> val, pos |-> pos]

RECURSIVE SkipWs(_, _)
SkipWs(s, i) ==
    IF i <= Len(s) /\ s[i] \in Whitespace THEN SkipWs(s, i + 1) ELSE i

\* index of the quote closing a string whose content starts at i, 0 if none
RECURSIVE ClosingQuote(_, _)
ClosingQuote(s, i) ==
    IF i > Len(s) THEN 0
    ELSE IF s[i] = "\"" THEN i
    ELSE ClosingQuote(s, i + 1)

ParseString(s, i) ==
    LET j == ClosingQuote(s, i + 1)
    IN  IF j = 0 THEN ParseFail
        ELSE ParseOk(JStr(SubSeq(s, i + 1, j - 1)), j + 1)

\* a run of digits; a leading 0 is a number of its own (what follows is
\* then extra data)
RECURSIVE ParseDigits(_, _, _)
ParseDigits(s, i, acc) ==
    IF i <= Len(s) /\ IsDigit(s[i])
    THEN ParseDigits(s, i + 1, acc * 10 + DigitValue(s[i]))
    ELSE ParseOk(JNum(acc), i)

ParseNumber(s, i) ==
    IF s[i] = "0" THEN ParseOk(JNum(0), i + 1) ELSE ParseDigits(s, i, 0)

ParseLiteral(s, i) ==
    IF startswith(SubSeq(s, i, Len(s)), <<"n", "u", "l", "l">>)
    THEN ParseOk(JNull, i + 4)
    ELSE IF startswith(SubSeq(s, i, Len(s)), <<"t", "r", "u", "e">>)
    THEN ParseOk(JBool(TRUE), i + 4)
    ELSE IF startswith(SubSeq(s, i, Len(s)), <<"f", "a", "l", "s", "e">>)
    THEN ParseOk(JBool(FALSE), i + 5)
    ELSE ParseFail

RECURSIVE ParseValue(_, _)
RECURSIVE ParseElements(_, _, _)
RECURSIVE ParseMembers(_, _, _)

\* the value starting at s[i] (whitespace already skipped)
ParseValue(s, i) ==
    IF i > Len(s) THEN ParseFail
    ELSE IF s[i] = "{" THEN
        LET j == SkipWs(s, i + 1)
        IN  IF j <= Len(s) /\ s[j] = "}" THEN ParseOk(JObj(<<>>), j + 1)
            ELSE ParseMembers(s, j, <<>>)
    ELSE IF s[i] = "[" THEN
        LET j == SkipWs(s, i + 1)
        IN  IF j <= Len(s) /\ s[j] = "]" THEN ParseOk(JList(<<>>), j + 1)
            ELSE ParseElements(s, j, <<>>)
    ELSE IF s[i] = "\"" THEN ParseString(s, i)
    ELSE IF IsDigit(s[i]) THEN ParseNumber(s, i)
    ELSE ParseLiteral(s, i)

\* elements of an array, s[i] is where the next element must start
ParseElements(s, i, acc) ==
    LET e == ParseValue(s, i)
    IN  IF ~e.ok THEN ParseFail
        ELSE LET j == SkipWs(s, e.pos)
                 xs == Append(acc, e.val)
             IN  IF j > Len(s) THEN ParseFail
                 ELSE IF s[j] = "]" THEN ParseOk(JList(xs), j + 1)
                 ELSE IF s[j] = "," THEN ParseElements(s, SkipWs(s, j + 1), xs)
                 ELSE ParseFail

\* members of an object, s[i] is where the next key must start
ParseMembers(s, i, acc) ==
    IF i > Len(s) \/ s[i] # "\"" THEN ParseFail
    ELSE LET k == ParseString(s, i)
         IN  IF ~k.ok THEN ParseFail
             ELSE LET c == SkipWs(s, k.pos)
                  IN  IF c > Len(s) \/ s[c] # ":" THEN ParseFail
                      ELSE LET e == ParseValue(s, SkipWs(s, c + 1))
                           IN  IF ~e.ok THEN ParseFail
                               ELSE LET j == SkipWs(s, e.pos)
                                        ps == Append(acc, <<k.val.v, e.val>>)
                                    IN  IF j > Len(s) THEN ParseFail
                                        ELSE IF s[j] = "}"
                                        THEN ParseOk(JObj(ps), j + 1)
                                        ELSE IF s[j] = ","
                                        THEN ParseMembers(s, SkipWs(s, j + 1), ps)
                                        ELSE ParseFail

\* json.loads(text): ok = FALSE stands for json.JSONDecodeError
json_loads(text) ==
    LET r == ParseValue(text, SkipWs(text, 1))
    IN  IF r.ok /\ SkipWs(text, r.pos) = Len(text) + 1 THEN r ELSE ParseFail

\* ---- json.dumps with the given separators ----
RECURSIVE Dumps(_, _, _)
RECURSIVE DumpsList(_, _, _)
RECURSIVE DumpsPairs(_, _, _)

Dumps(val, item_sep, key_sep) ==
    IF val.t = "str" THEN <<"\"">> \o val.v \o <<"\"">>
    ELSE IF val.t = "num" THEN <<Digits[val.v + 1]>>
    ELSE IF val.t = "null" THEN <<"n", "u", "l", "l">>
    ELSE IF val.t = "bool"
    THEN (IF val.v THEN <<"t", "r", "u", "e">> ELSE <<"f", "a", "l", "s", "e">>)
    ELSE IF val.t = "list"
    THEN <<"[">> \o DumpsList(val.v, item_sep, key_sep) \o <<"]">>
    ELSE <<"{">> \o DumpsPairs(val.v, item_sep, key_sep) \o <<"}">>

DumpsList(xs, item_sep, key_sep) ==
    IF Len(xs) = 0 THEN <<>>
    ELSE IF Len(xs) = 1 THEN Dumps(xs[1], item_sep, key_sep)
    ELSE Dumps(xs[1], item_sep, key_sep) \o item_sep
         \o DumpsList(Tail(xs), item_sep, key_sep)

DumpsPairs(ps, item_sep, key_sep) ==
    IF Len(ps) = 0 THEN <<>>
    ELSE LET one == <<"\"">> \o ps[1][1] \o <<"\"">> \o key_sep
                    \o Dumps(ps[1][2], item_sep, key_sep)
         IN  IF Len(ps) = 1 THEN one
             ELSE one \o item_sep \o DumpsPairs(Tail(ps), item_sep, key_sep)

\* the compact form a model replies with
DumpsCompact(val) == Dumps(val, <<",">>, <<":">>)

\* json.dumps(obj) with the default separators of Python (comma-space, colon-space)
json_dumps(val) == Dumps(val, <<",", " ">>, <<":", " ">>)

(***************************************************************************)
(* Python operators on parsed JSON values                                  *)
(***************************************************************************)
\* bool(value)
Truthy(val) ==
    IF val.t = "null" THEN FALSE
    ELSE IF val.t = "bool" THEN val.v
    ELSE IF val.t = "num" THEN val.v # 0
    ELSE Len(val.v) > 0

\* whether `key in value` evaluates at all (otherwise TypeError)
SupportsIn(val) == val.t \in {"obj", "list", "str"}

\* `key in value` for a str key: dict key, list element, substring
Contains(val, key) ==
    IF val.t = "obj" THEN \E i \in 1..Len(val.v) : val.v[i][1] = key
    ELSE IF val.t = "list" THEN \E i \in 1..Len(val.v) : val.v[i] = JStr(key)
    ELSE IsSubstring(key, val.v)

\* value[key] of a dict that has the key (a repeated key keeps its last value)
GetItem(val, key) ==
    LET i == CHOOSE k \in 1..Len(val.v) :
                 /\ val.v[k][1] = key
                 /\ \A m \in (k + 1)..Len(val.v) : val.v[m][1] # key
    IN  val.v[i][2]

(***************************************************************************)
(* llm_client.get_symptom_analysis                                         *)
(***************************************************************************)
MSG_DEFAULT_CONDITIONS ==
    <<"Unable to determine specific conditions. Please consult a healthcare provider.">>
MSG_DEFAULT_RECOMMENDATIONS ==
    <<"Consult with a healthcare professional for proper evaluation.">>

DEFAULT_CONDITIONS == JList(<<JStr(MSG_DEFAULT_CONDITIONS)>>)
DEFAULT_RECOMMENDATIONS == JList(<<JStr(MSG_DEFAULT_RECOMMENDATIONS)>>)

\* llm_client.py 116-125: returned on json.JSONDecodeError
JSON_FALLBACK ==
    [conditions |-> JList(<<
        JStr(<<"Analysis could not be completed. The symptoms you described may have multiple possible causes.">>)>>),
     recommendations |-> JList(<<
        JStr(<<"Schedule an appointment with your primary care physician">>),
        JStr(<<"Keep a symptom diary noting when symptoms occur and their severity">>),
        JStr(<<"Seek immediate medical attention if symptoms worsen or you experience severe pain, difficulty breathing, or other concerning signs">>)>>)]

\* llm_client.py 129-137: returned on any other exception
ERROR_FALLBACK ==
    [conditions |-> JList(<<
        JStr(<<"Unable to analyze symptoms at this time due to a technical error.">>)>>),
     recommendations |-> JList(<<
        JStr(<<"Please try again later or consult directly with a healthcare provider">>),
        JStr(<<"If experiencing severe symptoms, seek immediate medical attention">>)>>)]

\* llm_client.py 104-108: an empty (falsy) entry gets its default
EnsureConditions(c) == IF ~Truthy(c) THEN DEFAULT_CONDITIONS ELSE c

EnsureRecommendations(r) == IF ~Truthy(r) THEN DEFAULT_RECOMMENDATIONS ELSE r

\* the partial fallback collapsed into the total one: a reply with an empty
\* list is refused as a whole
ValidateAnalysisTotalFallback(parsed) ==
    IF ~SupportsIn(parsed) THEN ERROR_FALLBACK
    ELSE IF ~Contains(parsed, K_CONDITIONS) \/ ~Contains(parsed, K_RECOMMENDATIONS)
    THEN ERROR_FALLBACK
    ELSE IF parsed.t # "obj" THEN ERROR_FALLBACK
    ELSE IF ~Truthy(GetItem(parsed, K_CONDITIONS))
            \/ ~Truthy(GetItem(parsed, K_RECOMMENDATIONS))
    THEN ERROR_FALLBACK
    ELSE [conditions |-> GetItem(parsed, K_CONDITIONS),
          recommendations |-> GetItem(parsed, K_RECOMMENDATIONS)]

\* llm_client.py 100-110: the checks on the parsed value and the dict returned
\* (its two entries the callers read)
ValidateAnalysis(parsed) ==
    IF ~SupportsIn(parsed) THEN ERROR_FALLBACK                 \* TypeError
    ELSE IF ~Contains(parsed, K_CONDITIONS) \/ ~Contains(parsed, K_RECOMMENDATIONS)
    THEN ERROR_FALLBACK                                        \* ValueError
    ELSE IF parsed.t # "obj" THEN ERROR_FALLBACK               \* TypeError
    ELSE [conditions |-> EnsureConditions(GetItem(parsed, K_CONDITIONS)),
          recommendations |->
              EnsureRecommendations(GetItem(parsed, K_RECOMMENDATIONS))]

\* llm_client.py 72-137: the body of the coroutine, given what the backend did:
\* kind "raise" (generate_content raised), "no_text" (response.text raised)
\* or "text"
get_symptom_analysis(b) ==
    IF b.kind # "text" THEN ERROR_FALLBACK
    ELSE LET r == json_loads(strip_code_fences(b.text))
         IN  IF ~r.ok THEN JSON_FALLBACK ELSE ValidateAnalysis(r.val)

(***************************************************************************)
(* What the model backend can do on one call                               *)
(***************************************************************************)
A == <<"a">>
B == <<"b">>
X == <<"x">>

StrList(xs) == JList([i \in 1..Len(xs) |-> JStr(xs[i])])

\* the lists of strings a reply carries
ReplyLists ==
    {StrList(<<>>), StrList(<<A>>), StrList(<<B>>), StrList(<<X>>),
     StrList(<<A, B>>), StrList(<<X, A, B>>)}

\* values that are not a list of strings
WrongTyped ==
    {JStr(A), JStr(<<>>), JNum(5), JNum(0), JNull, JBool(TRUE), JObj(<<>>),
     JObj(<<<<A, JStr(B)>>>>), JList(<<JNum(1)>>), JList(<<JStr(A), JNull>>)}

Reply(c, r) == JObj(<<<<K_CONDITIONS, c>>, <<K_RECOMMENDATIONS, r>>>>)

WellFormedReplies == {Reply(c, r) : c \in ReplyLists, r \in ReplyLists}

WrongTypedReplies ==
    {Reply(w, StrList(<<B>>)) : w \in WrongTyped}
    \cup {Reply(StrList(<<A>>), w) : w \in WrongTyped}

MissingKeyReplies ==
    {JObj(<<<<K_CONDITIONS, StrList(<<A>>)>>>>),
     JObj(<<<<K_RECOMMENDATIONS, StrList(<<B>>)>>>>),
     JObj(<<>>),
     JObj(<<<<A, StrList(<<A>>)>>>>)}

NotAnObject ==
    {StrList(<<A>>),
     StrList(<<K_CONDITIONS, K_RECOMMENDATIONS>>),
     JStr(K_CONDITIONS \o <<" ">> \o K_RECOMMENDATIONS),
     JNum(5), JNull, JBool(FALSE)}

JsonReplies ==
    WellFormedReplies \cup WrongTypedReplies \cup MissingKeyReplies \cup NotAnObject

\* bodies that are not JSON: prose, nothing, a reply cut short, a reply
\* followed by prose
NonJsonBodies ==
    {<<"n", "o">>,
     <<>>,
     SubSeq(DumpsCompact(Reply(StrList(<<A>>), StrList(<<B>>))), 1, 18),
     DumpsCompact(Reply(StrList(<<A>>), StrList(<<B>>))) \o <<" ">> \o X,
     <<"{">>}

\* a body with the value it spells (is_json FALSE: it spells none)
Bodies ==
    {[text |-> DumpsCompact(v), is_json |-> TRUE, reply |-> v] : v \in JsonReplies}
    \cup {[text |-> json_dumps(v), is_json |-> TRUE, reply |-> v] :
             v \in {Reply(c, c) : c \in ReplyLists}}
    \cup {[text |-> n, is_json |-> FALSE, reply |-> JNull] : n \in NonJsonBodies}

LeadPieces == {FENCE, FENCE_JSON, <<"\n">>}
TrailPieces == {FENCE, <<"\n">>}

RECURSIVE Concat(_)
Concat(ps) == IF Len(ps) = 0 THEN <<>> ELSE Head(ps) \o Concat(Tail(ps))

\* the texts made of at most n pieces
PieceRuns(pieces, n) ==
    {Concat(ps) : ps \in UNION {[1..k -> pieces] : k \in 0..n}}

BackendTexts ==
    {[kind |-> "text", text |-> pre \o b.text \o post,
      is_json |-> b.is_json, reply |-> b.reply] :
        pre \in PieceRuns(LeadPieces, MaxLeadPieces),
        b \in Bodies,
        post \in PieceRuns(TrailPieces, MaxTrailPieces)}

\* generate_content raised (network, auth, unavailable); response.text raised
\* (no usable text)
BackendFailures ==
    {[kind |-> k, text |-> <<>>, is_json |-> FALSE, reply |-> JNull] :
        k \in {"raise", "no_text"}}

BackendOutcomes == BackendTexts \cup BackendFailures

NoBackend == [kind |-> "none", text |-> <<>>, is_json |-> FALSE, reply |-> JNull]
NoAnalysis == [conditions |-> JNull, recommendations |-> JNull]

(***************************************************************************)
(* Requests                                                                *)
(***************************************************************************)
NoneInt == [some |-> FALSE, v |-> 0]
NoneStr == [some |-> FALSE, v |-> ""]
Some(x) == [some |-> TRUE, v |-> x]

\* a symptoms text: `lead` blanks, then `core` characters that start and end
\* with a non-blank, then `trail` blanks
Text(lead, core, trail) == [lead |-> lead, core |-> core, trail |-> trail]

\* len(text)
TextLen(txt) == txt.lead + txt.core + txt.trail

\* text.strip()
TextStrip(txt) == Text(0, txt.core, 0)

MIN_LENGTH == 3
MAX_LENGTH == 1000
AGE_GE == 0
AGE_LE == 120
DEFAULT_LIMIT == 10

SymptomTexts ==
    {Text(0, 0, 0), Text(MIN_LENGTH, 0, 0), Text(0, MIN_LENGTH - 1, 0),
     Text(0, MIN_LENGTH, 0), Text(1, 1, 1), Text(0, MAX_LENGTH, 0),
     Text(0, MAX_LENGTH + 1, 0), Text(1, MAX_LENGTH, 0)}

Ages == {NoneInt, Some(AGE_GE - 1), Some(AGE_GE), Some(AGE_LE), Some(AGE_LE + 1)}

Genders == {NoneStr, Some("female")}

Requests ==
    [symptoms : SymptomTexts, age : Ages, gender : Genders]

\* app.py 51-54: the constraints pydantic checks on the body (on the text as
\* sent: nothing trims it)
SymptomRequest(request) ==
    /\ TextLen(request.symptoms) >= MIN_LENGTH
    /\ TextLen(request.symptoms) <= MAX_LENGTH
    /\ request.age.some => (request.age.v >= AGE_GE /\ request.age.v <= AGE_LE)

\* what the backend would do if it were called while a request is handled
HandlerBackends ==
    {b \in BackendOutcomes :
        \/ b.kind # "text"
        \/ b.text \in {<<"n", "o">>,
                       DumpsCompact(Reply(StrList(<<A>>), StrList(<<B>>)))}}

(***************************************************************************)
(* llm_client.get_symptom_analysis: the prompt                             *)
(***************************************************************************)
\* str(n) of an int n >= 0
RECURSIVE IntToText(_)
IntToText(n) ==
    IF n < 10 THEN <<Digits[n + 1]>>
    ELSE IntToText(n \div 10) \o <<Digits[(n % 10) + 1]>>

\* the text before and after {context} in the prompt (llm_client.py 38-70),
\* each kept as one symbol
PROMPT_HEAD ==
    <<"You are a medical education assistant helping to explain possible conditions based on symptoms. ">>
PROMPT_TAIL ==
    <<"Based on these symptoms, please provide: ... Ensure your response is ONLY the JSON object, with no additional text before or after.">>

SYMPTOMS_LABEL == <<"S", "y", "m", "p", "t", "o", "m", "s", ":", " ">>
AGE_LINE == <<"\n", "A", "g", "e", ":", " ">>
GENDER_LINE == <<"\n", "G", "e", "n", "d", "e", "r", ":", " ">>

\* `if age:` on Optional[int]: None and 0 are falsy
AgeTruthy(age) == age.some /\ age.v # 0

\* `if gender:` on Optional[str]: None and "" are falsy
GenderTruthy(gender) == gender.some /\ gender.v # ""

\* the characters of a symptoms text
TextChars(txt) ==
    [i \in 1..txt.lead |-> " "] \o [i \in 1..txt.core |-> "s"]
    \o [i \in 1..txt.trail |-> " "]

\* llm_client.py 30-35 (a gender is kept as one symbol)
build_context(symptoms, age, gender) ==
    SYMPTOMS_LABEL \o TextChars(symptoms)
    \o (IF AgeTruthy(age) THEN AGE_LINE \o IntToText(age.v) ELSE <<>>)
    \o (IF GenderTruthy(gender) THEN GENDER_LINE \o <<gender.v>> ELSE <<>>)

\* llm_client.py 38-70
build_prompt(symptoms, age, gender) ==
    PROMPT_HEAD \o <<"\n", "\n">> \o build_context(symptoms, age, gender)
    \o <<"\n", "\n">> \o PROMPT_TAIL

\* the arguments a validated request hands over (app.py 103-107)
PromptRequests ==
    [symptoms : {Text(0, MIN_LENGTH, 0), Text(1, 1, 1)},
     age : {NoneInt} \cup {Some(n) : n \in AGE_GE..AGE_LE},
     gender : {NoneStr, Some(""), Some("female")}]

(***************************************************************************)
(* database.py                                                             *)
(***************************************************************************)
\* a table whose id is not AUTOINCREMENT and is taken from the row count of
\* the first insert: every row gets the same id
save_query_same_id(st, nid, now, symptoms, age, gender, conditions, recommendations, db_ok) ==
    IF db_ok
    THEN [store |-> Append(st, [id |-> nid,
                                symptoms |-> symptoms,
                                age |-> age,
                                gender |-> gender,
                                conditions |-> json_dumps(conditions),
                                recommendations |-> json_dumps(recommendations),
                                timestamp |-> now]),
          next_id |-> nid,
          query_id |-> Some(nid)]
    ELSE [store |-> st, next_id |-> nid, query_id |-> NoneInt]

\* database.py 51-76: the row is inserted with the next id and the current
\* second and its id returned; on any exception nothing is stored and None
\* is returned
save_query(st, nid, now, symptoms, age, gender, conditions, recommendations, db_ok) ==
    IF db_ok
    THEN [store |-> Append(st, [id |-> nid,
                                symptoms |-> symptoms,
                                age |-> age,
                                gender |-> gender,
                                conditions |-> json_dumps(conditions),
                                recommendations |-> json_dumps(recommendations),
                                timestamp |-> now]),
          next_id |-> nid + 1,
          query_id |-> Some(nid)]
    ELSE [store |-> st, next_id |-> nid, query_id |-> NoneInt]

\* database.py 111-119, 155-163: a row as the dict handed out
RowToDict(row) ==
    [id |-> row.id,
     symptoms |-> row.symptoms,
     age |-> row.age,
     gender |-> row.gender,
     conditions |-> json_loads(row.conditions).val,
     recommendations |-> json_loads(row.recommendations).val,
     timestamp |-> row.timestamp]

\* ORDER BY timestamp DESC: every order of the rows in which timestamps never
\* increase (the order of rows of one second is left to the engine)
TimestampDescOrders(st) ==
    {p \in [1..Len(st) -> 1..Len(st)] :
        /\ \A i, j \in 1..Len(st) : i # j => p[i] # p[j]
        /\ \A i, j \in 1..Len(st) :
               i < j => st[p[i]].timestamp >= st[p[j]].timestamp}

\* LIMIT ?: a negative limit is no limit
LimitCount(st, limit) ==
    IF limit < 0 \/ limit > Len(st) THEN Len(st) ELSE limit

\* database.py 88-121: the lists get_recent_queries(limit) can return
get_recent_queries(st, limit) ==
    {[i \in 1..LimitCount(st, limit) |-> RowToDict(st[p[i]])] :
        p \in TimestampDescOrders(st)}

\* database.py 127-168: the row of that id as a one-element list, the empty
\* list for None (no such row)
get_query_by_id(st, query_id) ==
    LET found == {i \in 1..Len(st) : st[i].id = query_id}
    IN  IF found = {} THEN <<>>
        ELSE <<RowToDict(st[CHOOSE i \in found : TRUE])>>

(***************************************************************************)
(* app.py: POST /analyze, GET /history                                     *)
(***************************************************************************)
\* what calling an async def without await evaluates to: the coroutine
\* object; its body does not run
CoroutineObject == [t |-> "coroutine", v |-> 0]

\* app.py 103-107: get_symptom_analysis(...) is called, not awaited
CallGetSymptomAnalysis(request, b) == CoroutineObject

\* value[key] with a str key evaluates only on a dict (otherwise TypeError)
Subscriptable(val) == val.t = "obj"

\* SymptomResponse (app.py 56-61): conditions and recommendations are List[str]
IsStrList(val) ==
    /\ val.t = "list"
    /\ \A i \in 1..Len(val.v) : val.v[i].t = "str"

HttpError(status) ==
    [status |-> status, conditions |-> JNull, recommendations |-> JNull,
     query_id |-> NoneInt, llm_calls |-> 0, saved |-> FALSE]

\* app.py 84-155: the whole handler.  Gives the response with the store as
\* the handler leaves it.
analyze_symptoms(request, b, db_ok, st, nid, now) ==
    LET unchanged(r) == [resp |-> r, store |-> st, next_id |-> nid]
    IN  IF ~SymptomRequest(request)
        THEN unchanged(HttpError(422))          \* FastAPI: RequestValidationError
        ELSE IF TextLen(TextStrip(request.symptoms)) = 0
        THEN unchanged(HttpError(400))          \* app.py 97-98
        ELSE LET result == CallGetSymptomAnalysis(request, b)
             IN  IF ~Subscriptable(result)
                 THEN unchanged(HttpError(500)) \* app.py 110: TypeError, 149-155
                 ELSE IF ~Contains(result, K_CONDITIONS)
                         \/ ~Contains(result, K_RECOMMENDATIONS)
                 THEN unchanged(HttpError(500)) \* KeyError, 149-155
                 ELSE LET c == GetItem(result, K_CONDITIONS)
                          r == GetItem(result, K_RECOMMENDATIONS)
                          s == save_query(st, nid, now, request.symptoms,
                                          request.age, request.gender, c, r, db_ok)
                      IN  IF ~IsStrList(c) \/ ~IsStrList(r)
                          THEN [resp |-> HttpError(500),     \* app.py 128: ValidationError
                                store |-> s.store, next_id |-> s.next_id]
                          ELSE [resp |-> [status |-> 200,
                                          conditions |-> c,
                                          recommendations |-> r,
                                          query_id |-> s.query_id,
                                          llm_calls |-> 1,
                                          saved |-> db_ok],
                                store |-> s.store, next_id |-> s.next_id]

NoRequest == [symptoms |-> Text(0, 0, 0), age |-> NoneInt, gender |-> NoneStr]

NoCall ==
    [op |-> "none", request |-> NoRequest, backend |-> NoBackend,
     db_ok |-> TRUE, limit |-> 0, query_id |-> 0,
     conditions |-> JNull, recommendations |-> JNull]

Call(op, request, b, db_ok, limit, query_id, c, r) ==
    [op |-> op, request |-> request, backend |-> b, db_ok |-> db_ok,
     limit |-> limit, query_id |-> query_id,
     conditions |-> c, recommendations |-> r]

NoResp ==
    [status |-> 0, conditions |-> JNull, recommendations |-> JNull,
     query_id |-> NoneInt, llm_calls |-> 0, saved |-> FALSE, queries |-> <<>>]

WithQueries(r, qs) ==
    [status |-> r.status, conditions |-> r.conditions,
     recommendations |-> r.recommendations, query_id |-> r.query_id,
     llm_calls |-> r.llm_calls, saved |-> r.saved, queries |-> qs]

(***************************************************************************)
(* Startup: start_backend.py and the import of app.py                      *)
(***************************************************************************)
\* start_backend.py 77-102
check_file_structure(exist) == exist

\* start_backend.py 11-49: "pass", "fail" (the user declines the install) or
\* "raise" (pip fails: check_call raises, main's caller exits)
check_and_install_dependencies(missing, answer, pip_ok) ==
    IF ~missing THEN "pass"
    ELSE IF answer # "y" THEN "fail"
    ELSE IF pip_ok THEN "pass"
    ELSE "raise"

\* start_backend.py 51-75: `if not api_key` (an empty value counts as unset)
check_api_key(key) == key = "set"

\* the module-level check left out
AppModuleKeyCheckSkipped(key) == TRUE

\* app.py 21-34: the module-level check, sys.exit(1) when it fails
AppModuleKeyCheck(key) == key = "set"

\* importing app.py and running uvicorn (app.py 12-49, 184-194;
\* start_backend.py 121-129): where the process stands afterwards
ImportAppAndRun(key, port_free) ==
    IF ~AppModuleKeyCheck(key) THEN "exited"
    ELSE IF ~port_free THEN "exited"
    ELSE "serving"

\* start_backend.py 145-147
CheckFileStructure ==
    /\ entry = "script"
    /\ srv_pc = "start"
    /\ IF check_file_structure(files_exist)
       THEN srv_pc' = "check_deps" /\ passed' = Append(passed, "files")
       ELSE srv_pc' = "exited" /\ passed' = passed
    /\ UNCHANGED <<llm_vars, env_vars, conc_vars, prompt_vars, db_vars, op_vars>>

\* start_backend.py 149-151
CheckDependencies ==
    /\ srv_pc = "check_deps"
    /\ \E missing \in BOOLEAN, answer \in {"y", "n"}, pip_ok \in BOOLEAN :
        IF check_and_install_dependencies(missing, answer, pip_ok) = "pass"
        THEN srv_pc' = "check_key" /\ passed' = Append(passed, "deps")
        ELSE srv_pc' = "exited" /\ passed' = passed
    /\ UNCHANGED <<llm_vars, env_vars, conc_vars, prompt_vars, db_vars, op_vars>>

\* start_backend.py 153-155
CheckApiKey ==
    /\ srv_pc = "check_key"
    /\ IF check_api_key(api_key)
       THEN srv_pc' = "start_server" /\ passed' = Append(passed, "key")
       ELSE srv_pc' = "exited" /\ passed' = passed
    /\ UNCHANGED <<llm_vars, env_vars, conc_vars, prompt_vars, db_vars, op_vars>>

\* start_backend.py 157-160, 104-136
StartServer ==
    /\ srv_pc = "start_server"
    /\ \E port_free \in BOOLEAN : srv_pc' = ImportAppAndRun(api_key, port_free)
    /\ UNCHANGED <<llm_vars, env_vars, conc_vars, prompt_vars, passed, db_vars, op_vars>>

\* python app.py (or an ASGI server importing app:app) without the script
RunAppDirect ==
    /\ entry = "direct"
    /\ srv_pc = "start"
    /\ \E port_free \in BOOLEAN : srv_pc' = ImportAppAndRun(api_key, port_free)
    /\ UNCHANGED <<llm_vars, env_vars, conc_vars, prompt_vars, passed, db_vars, op_vars>>

(***************************************************************************)
(* Requests to the serving process                                         *)
(***************************************************************************)
\* POST /analyze
Analyze ==
    /\ srv_pc = "serving"
    /\ \E request \in Requests, b \in HandlerBackends, db_ok \in BOOLEAN :
        LET out == analyze_symptoms(request, b, db_ok, store, next_id, clock)
        IN  /\ call' = Call("analyze", request, b, db_ok, 0, 0, JNull, JNull)
            /\ resp' = WithQueries(out.resp, <<>>)
            /\ store' = out.store
            /\ next_id' = out.next_id
    /\ UNCHANGED <<llm_vars, env_vars, conc_vars, prompt_vars, srv_vars, clock>>

HistoryLimits == (0..(MaxRecords + 1)) \cup {DEFAULT_LIMIT, -1}

\* GET /history?limit=N (app.py 157-171)
GetHistory ==
    /\ srv_pc = "serving"
    /\ \E limit \in HistoryLimits : \E qs \in get_recent_queries(store, limit) :
        /\ call' = Call("history", NoRequest, NoBackend, TRUE, limit, 0, JNull, JNull)
        /\ resp' = WithQueries([status |-> 200, conditions |-> JNull,
                                recommendations |-> JNull, query_id |-> NoneInt,
                                llm_calls |-> 0, saved |-> FALSE], qs)
    /\ UNCHANGED <<llm_vars, env_vars, conc_vars, prompt_vars, srv_vars, db_vars>>

(***************************************************************************)
(* POST /analyze requests in flight together                               *)
(***************************************************************************)
\* a request as the event loop holds it: "idle" (not sent), "received",
\* "handled" (the handler returned or raised), "responded"
IdleTask ==
    [pc |-> "idle", request |-> NoRequest, backend |-> NoBackend,
     db_ok |-> TRUE, result |-> HttpError(0), resp |-> HttpError(0)]

\* bodies sent together: a valid one, one with age and gender, a blank one,
\* one too short
ConcRequests ==
    {[symptoms |-> Text(0, MIN_LENGTH, 0), age |-> NoneInt, gender |-> NoneStr],
     [symptoms |-> Text(1, 1, 1), age |-> Some(AGE_LE), gender |-> Some("female")],
     [symptoms |-> Text(MIN_LENGTH, 0, 0), age |-> NoneInt, gender |-> NoneStr],
     [symptoms |-> Text(0, MIN_LENGTH - 1, 0), age |-> NoneInt, gender |-> NoneStr]}

ConcBackends ==
    {b \in HandlerBackends : b.kind = "text"} \cup
    {CHOOSE b \in HandlerBackends : b.kind # "text"}

\* every call of the handler binds its own request (the parameter of
\* analyze_symptoms, app.py 85): the request of task i
HandlerRequestShared(ts, i) ==
    IF ts[1].pc # "idle" THEN ts[1].request ELSE ts[i].request

HandlerRequest(ts, i) == ts[i].request

\* the server reads a request off a connection
Arrive ==
    /\ srv_pc = "serving"
    /\ \E i \in 1..MaxTasks :
        /\ tasks[i].pc = "idle"
        /\ \E request \in ConcRequests, b \in ConcBackends, db_ok \in BOOLEAN :
            tasks' = [tasks EXCEPT ![i] =
                         [pc |-> "received", request |-> request, backend |-> b,
                          db_ok |-> db_ok, result |-> HttpError(0),
                          resp |-> HttpError(0)]]
    /\ UNCHANGED <<llm_vars, env_vars, prompt_vars, srv_vars, db_vars, op_vars>>

\* the loop runs the handler of one request: app.py 84-155 holds no await,
\* so the coroutine runs from its first line to its return or raise without
\* giving the loop to another request
Handle ==
    /\ \E i \in 1..MaxTasks :
        /\ tasks[i].pc = "received"
        /\ LET out == analyze_symptoms(HandlerRequest(tasks, i), tasks[i].backend,
                                       tasks[i].db_ok, store, next_id, clock)
           IN  /\ tasks' = [tasks EXCEPT ![i].pc = "handled",
                                         ![i].result = out.resp]
               /\ store' = out.store
               /\ next_id' = out.next_id
    /\ UNCHANGED <<llm_vars, env_vars, prompt_vars, srv_vars, clock, op_vars>>

\* the response of one request is written to its connection
Respond ==
    /\ \E i \in 1..MaxTasks :
        /\ tasks[i].pc = "handled"
        /\ tasks' = [tasks EXCEPT ![i].pc = "responded",
                                  ![i].resp = tasks[i].result]
    /\ UNCHANGED <<llm_vars, env_vars, prompt_vars, srv_vars, db_vars, op_vars>>

(***************************************************************************)
(* Calls of database.py                                                    *)
(***************************************************************************)
SavedRequests ==
    {[symptoms |-> Text(0, MIN_LENGTH, 0), age |-> NoneInt, gender |-> NoneStr],
     [symptoms |-> Text(0, MAX_LENGTH, 0), age |-> Some(AGE_GE),
      gender |-> Some("female")]}

SavedLists == {StrList(<<A>>), StrList(<<X, A, B>>)}

\* save_query(symptoms, age, gender, conditions, recommendations)
SaveQuery ==
    /\ Len(store) < MaxRecords
    /\ \E request \in SavedRequests, c \in SavedLists, db_ok \in BOOLEAN :
        LET s == save_query(store, next_id, clock, request.symptoms, request.age,
                            request.gender, c, DEFAULT_RECOMMENDATIONS, db_ok)
        IN  /\ call' = Call("save", request, NoBackend, db_ok, 0, 0,
                            c, DEFAULT_RECOMMENDATIONS)
            /\ resp' = WithQueries([status |-> 0, conditions |-> JNull,
                                    recommendations |-> JNull,
                                    query_id |-> s.query_id,
                                    llm_calls |-> 0, saved |-> db_ok], <<>>)
            /\ store' = s.store
            /\ next_id' = s.next_id
    /\ UNCHANGED <<llm_vars, env_vars, conc_vars, prompt_vars, srv_vars, clock>>

\* get_recent_queries(limit)
GetRecentQueries ==
    /\ \E limit \in HistoryLimits : \E qs \in get_recent_queries(store, limit) :
        /\ call' = Call("recent", NoRequest, NoBackend, TRUE, limit, 0, JNull, JNull)
        /\ resp' = WithQueries(NoResp, qs)
    /\ UNCHANGED <<llm_vars, env_vars, conc_vars, prompt_vars, srv_vars, db_vars>>

QueryIds == 0..(MaxRecords + 1)

\* get_query_by_id(query_id)
GetQueryById ==
    /\ \E query_id \in QueryIds :
        /\ call' = Call("by_id", NoRequest, NoBackend, TRUE, 0, query_id, JNull, JNull)
        /\ resp' = WithQueries(NoResp, get_query_by_id(store, query_id))
    /\ UNCHANGED <<llm_vars, env_vars, conc_vars, prompt_vars, srv_vars, db_vars>>

\* a second passes
Tick ==
    /\ clock < MaxClock
    /\ clock' = clock + 1
    /\ UNCHANGED <<llm_vars, env_vars, conc_vars, prompt_vars, srv_vars, store, next_id, op_vars>>

(***************************************************************************)
(* Specifications                                                          *)
(***************************************************************************)
LlmIdle ==
    /\ llm_pc = "idle"
    /\ backend = NoBackend
    /\ response_text = <<>>
    /\ strips = 0
    /\ analysis = NoAnalysis

StoreEmpty ==
    /\ store = <<>>
    /\ next_id = 1
    /\ clock = 0

NothingCalled ==
    /\ call = NoCall
    /\ resp = NoResp

NoPrompt ==
    /\ prompt_args = NoRequest
    /\ prompt = <<>>

NoTasks == tasks = [i \in 1..MaxTasks |-> IdleTask]

\* a process that serves: started directly, the key set
Serving ==
    /\ entry = "direct"
    /\ api_key = "set"
    /\ files_exist = TRUE
    /\ srv_pc = "serving"
    /\ passed = <<>>

\* the service: a process is started, and serves once startup got through
Init ==
    /\ LlmIdle
    /\ entry \in {"script", "direct"}
    /\ api_key \in {"absent", "empty", "set"}
    /\ files_exist \in BOOLEAN
    /\ srv_pc = "start"
    /\ passed = <<>>
    /\ StoreEmpty
    /\ NothingCalled
    /\ NoPrompt
    /\ NoTasks

Next ==
    \/ CheckFileStructure
    \/ CheckDependencies
    \/ CheckApiKey
    \/ StartServer
    \/ RunAppDirect
    \/ Analyze
    \/ GetHistory

Spec == Init /\ [][Next]_vars

\* the store under its callers, GET /history among them
StoreInit == LlmIdle /\ Serving /\ StoreEmpty /\ NothingCalled /\ NoPrompt /\ NoTasks

StoreNext == SaveQuery \/ GetRecentQueries \/ GetQueryById \/ GetHistory \/ Tick

SpecStore == StoreInit /\ [][StoreNext]_vars

(***************************************************************************)
(* Several POST /analyze requests in flight (app.py 84-155 under uvicorn's *)
(* event loop, app.py 185-190: one process, one loop)                      *)
(***************************************************************************)
ConcInit == LlmIdle /\ Serving /\ StoreEmpty /\ NothingCalled /\ NoPrompt /\ NoTasks

ConcNext == Arrive \/ Handle \/ Respond

SpecConc == ConcInit /\ [][ConcNext]_vars

(***************************************************************************)
(* The prompt builder on its own                                           *)
(***************************************************************************)
PromptInit == LlmIdle /\ Serving /\ StoreEmpty /\ NothingCalled /\ NoPrompt /\ NoTasks

\* llm_client.py 30-70 for one set of arguments
BuildPrompt ==
    /\ \E request \in PromptRequests :
        /\ prompt_args' = request
        /\ prompt' = build_prompt(request.symptoms, request.age, request.gender)
    /\ UNCHANGED <<llm_vars, env_vars, conc_vars, srv_vars, db_vars, op_vars>>

PromptNext == BuildPrompt

SpecPrompt == PromptInit /\ [][PromptNext]_vars

(***************************************************************************)
(* get_symptom_analysis run to completion, and the fence-stripping applied *)
(* again to its own output                                                 *)
(***************************************************************************)
LlmInit == LlmIdle /\ Serving /\ StoreEmpty /\ NothingCalled /\ NoPrompt /\ NoTasks

\* one call of get_symptom_analysis
RunAnalysis ==
    /\ llm_pc = "idle"
    /\ \E b \in BackendOutcomes :
        /\ backend' = b
        /\ analysis' = get_symptom_analysis(b)
        /\ response_text' = b.text
    /\ llm_pc' = "done"
    /\ strips' = 0
    /\ UNCHANGED <<env_vars, conc_vars, prompt_vars, srv_vars, db_vars, op_vars>>

\* llm_client.py 86-95 applied to the text at hand
StripFences ==
    /\ llm_pc = "done"
    /\ backend.kind = "text"
    /\ strips < MaxStrips
    /\ response_text' = strip_code_fences(response_text)
    /\ strips' = strips + 1
    /\ UNCHANGED <<llm_pc, backend, analysis, env_vars, conc_vars, prompt_vars, srv_vars, db_vars, op_vars>>

LlmNext == RunAnalysis \/ StripFences

SpecLLM == LlmInit /\ [][LlmNext]_vars

(***************************************************************************)
(* The claims                                                              *)
(***************************************************************************)
\* a request the contract calls valid: 3..1000 characters (as sent and
\* trimmed), age absent or in 0..120, any gender
ValidRequest(request) ==
    /\ TextLen(request.symptoms) >= MIN_LENGTH
    /\ TextLen(request.symptoms) <= MAX_LENGTH
    /\ TextLen(TextStrip(request.symptoms)) >= MIN_LENGTH
    /\ request.age.some => (request.age.v >= AGE_GE /\ request.age.v <= AGE_LE)

NonEmptyList(val) == val.t = "list" /\ Len(val.v) > 0

\* C1: every valid request to POST /analyze, whatever the backend and the
\* store do, is answered with HTTP 200 and non-empty conditions and
\* recommendations.
C1_ValidRequestAnswered200 ==
    (call.op = "analyze" /\ ValidRequest(call.request)) =>
        /\ resp.status = 200
        /\ NonEmptyList(resp.conditions)
        /\ NonEmptyList(resp.recommendations)

\* C2: when the backend call fails (it raises, or the response has no usable
\* text), POST /analyze for a valid request returns HTTP 200 with the fixed
\* fallback payload, never HTTP 500.
C2_BackendFailureAnswered200 ==
    (/\ call.op = "analyze"
     /\ ValidRequest(call.request)
     /\ call.backend.kind \in {"raise", "no_text"}) =>
        /\ resp.status = 200
        /\ resp.conditions = ERROR_FALLBACK.conditions
        /\ resp.recommendations = ERROR_FALLBACK.recommendations

\* C3: when the backend text, trimmed and fence-stripped, is not valid JSON,
\* POST /analyze returns HTTP 200 with the fixed fallback payload.
C3_MalformedTextAnswered200 ==
    (/\ call.op = "analyze"
     /\ ValidRequest(call.request)
     /\ call.backend.kind = "text"
     /\ ~json_loads(strip_code_fences(call.backend.text)).ok) =>
        /\ resp.status = 200
        /\ resp.conditions = JSON_FALLBACK.conditions
        /\ resp.recommendations = JSON_FALLBACK.recommendations

\* a body the contract calls invalid: trimmed symptoms shorter than 3 or
\* longer than 1000 characters, or an age outside 0..120
InvalidBody(request) ==
    \/ TextLen(TextStrip(request.symptoms)) < MIN_LENGTH
    \/ TextLen(TextStrip(request.symptoms)) > MAX_LENGTH
    \/ (request.age.some /\ (request.age.v < AGE_GE \/ request.age.v > AGE_LE))

\* C4: an invalid body is rejected with HTTP 400 without any backend call or
\* store write; symptoms of length 3 and age 120 are not rejected.
C4_InvalidBodyRejected400 ==
    call.op = "analyze" =>
        /\ InvalidBody(call.request) =>
               (resp.status = 400 /\ resp.llm_calls = 0 /\ ~resp.saved)
        /\ (/\ call.request.symptoms = Text(0, MIN_LENGTH, 0)
            /\ call.request.age = Some(AGE_LE)) =>
               resp.status \notin {400, 422}

\* C5: a store write that fails while a valid request is handled leaves the
\* request answered with HTTP 200 and a null query_id; a write that succeeds
\* gives the id the store assigned to the record of that request.
C5_StoreFailureAnswered200 ==
    (call.op = "analyze" /\ ValidRequest(call.request)) =>
        /\ resp.status = 200
        /\ ~call.db_ok => resp.query_id = NoneInt
        /\ call.db_ok =>
               /\ Len(store) > 0
               /\ resp.query_id = Some(store[Len(store)].id)

\* C6: after N successful saves, get_recent_queries(limit=N) and
\* GET /history?limit=N return exactly the N records, newest first: in
\* strictly reverse order of creation, also among records of one second.
C6_HistoryNewestFirst ==
    (call.op \in {"recent", "history"} /\ call.limit = Len(store)) =>
        /\ Len(resp.queries) = Len(store)
        /\ \A i, j \in 1..Len(resp.queries) :
               i < j => resp.queries[i].id > resp.queries[j].id

StartupChecks == <<"files", "deps", "key">>

\* C7: with GEMINI_API_KEY absent the process ends during startup: it never
\* serves and never handles a request.  The startup script starts the server
\* only after the file, dependency and key checks have passed, in that order.
C7_MissingKeyEndsStartup ==
    /\ api_key = "absent" => (srv_pc # "serving" /\ call.op = "none")
    /\ Len(passed) <= Len(StartupChecks)
    /\ passed = SubSeq(StartupChecks, 1, Len(passed))
    /\ (entry = "script" /\ srv_pc \in {"start_server", "serving"}) =>
           passed = StartupChecks

\* C7 happens: the script passed the first two checks and ended at the third
C7_Witness ==
    /\ api_key = "absent"
    /\ entry = "script"
    /\ srv_pc = "exited"
    /\ passed = <<"files", "deps">>

\* a value of the type the contract asks of both entries: a list of strings
ListOfStrings(val) ==
    /\ val.t = "list"
    /\ \A i \in 1..Len(val.v) : val.v[i].t = "str"

\* the reply has both keys, each a list of strings
ValidSchema(val) ==
    /\ val.t = "obj"
    /\ Contains(val, K_CONDITIONS)
    /\ Contains(val, K_RECOMMENDATIONS)
    /\ ListOfStrings(GetItem(val, K_CONDITIONS))
    /\ ListOfStrings(GetItem(val, K_RECOMMENDATIONS))

\* the text the backend sent is JSON once trimmed and fence-stripped
ReplyParsed ==
    /\ llm_pc = "done"
    /\ backend.kind = "text"
    /\ backend.is_json
    /\ json_loads(strip_code_fences(backend.text)).ok

\* C8: a reply that is JSON but lacks a key, or whose conditions or
\* recommendations is not a list of strings, or that is no object, yields the
\* fixed total-fallback payload; a wrong-typed value is never returned.
C8_InvalidSchemaFallsBack ==
    (ReplyParsed /\ ~ValidSchema(backend.reply)) =>
        /\ analysis \in {ERROR_FALLBACK, JSON_FALLBACK}
        /\ ListOfStrings(analysis.conditions)
        /\ ListOfStrings(analysis.recommendations)

\* C9: of a reply with both keys, a list that is empty while the other is not
\* is replaced by its one-element default and the other returned as given;
\* two non-empty lists are both returned as given.
C9_PartialFallback ==
    (/\ ReplyParsed
     /\ backend.reply \in WellFormedReplies
     /\ \/ Len(GetItem(backend.reply, K_CONDITIONS).v) > 0
        \/ Len(GetItem(backend.reply, K_RECOMMENDATIONS).v) > 0) =>
        LET c == GetItem(backend.reply, K_CONDITIONS)
            r == GetItem(backend.reply, K_RECOMMENDATIONS)
        IN  /\ analysis.conditions =
                   (IF Len(c.v) = 0 THEN DEFAULT_CONDITIONS ELSE c)
            /\ analysis.recommendations =
                   (IF Len(r.v) = 0 THEN DEFAULT_RECOMMENDATIONS ELSE r)

\* C9 happens: a fenced reply with no conditions and recommendations ["x"]
C9_Witness ==
    /\ ReplyParsed
    /\ startswith(backend.text, FENCE_JSON)
    /\ backend.reply = Reply(StrList(<<>>), StrList(<<X>>))
    /\ analysis.conditions = DEFAULT_CONDITIONS
    /\ analysis.recommendations = StrList(<<X>>)

\* C10: the fence-stripping is idempotent on every text: applied to its own
\* output it gives that output back.
C10_FenceStripIdempotent ==
    strips >= 1 => strip_code_fences(response_text) = response_text

\* C11: the prompt holds the symptom text, an Age line exactly when an age
\* was given (0 included) and a Gender line exactly when a gender (a
\* non-empty one) was given.
C11_PromptHasGivenFields ==
    prompt # <<>> =>
        /\ IsSubstring(SYMPTOMS_LABEL \o TextChars(prompt_args.symptoms), prompt)
        /\ IsSubstring(AGE_LINE, prompt) <=> prompt_args.age.some
        /\ prompt_args.age.some =>
               IsSubstring(AGE_LINE \o IntToText(prompt_args.age.v), prompt)
        /\ IsSubstring(GENDER_LINE, prompt) <=>
               (prompt_args.gender.some /\ prompt_args.gender.v # "")

\* C12: the store is append-only with monotonic ids: a successful save_query
\* adds exactly one record whose id is greater than every id assigned before,
\* a failed save adds nothing, no step but a successful save changes the store
\* (so the reads leave it as it is), and no step changes or removes a record
\* that exists.
StoreIds(st) == {st[i].id : i \in 1..Len(st)}

C12_AppendOnlyMonotonicIds ==
    [][/\ Len(store') >= Len(store)
       /\ SubSeq(store', 1, Len(store)) = store
       /\ \A i \in StoreIds(store) : i < next_id
       /\ next_id' >= next_id
       /\ (SaveQuery /\ call'.db_ok) =>
              /\ Len(store') = Len(store) + 1
              /\ store'[Len(store')].id >= next_id
              /\ \A i \in StoreIds(store) : store'[Len(store')].id > i
              /\ resp'.query_id = Some(store'[Len(store')].id)
       /\ (SaveQuery /\ ~call'.db_ok) =>
              store' = store /\ resp'.query_id = NoneInt
       /\ store' # store => (SaveQuery /\ call'.db_ok)
      ]_vars

\* two records saved one after the other, then read back by id
C12_Witness ==
    /\ Len(store) = 2
    /\ store[2].id > store[1].id
    /\ call.op = "by_id"
    /\ call.query_id = store[2].id
    /\ Len(resp.queries) = 1

\* what request i gives when it is the only one the service ever gets
Alone(i) ==
    analyze_symptoms(tasks[i].request, tasks[i].backend, tasks[i].db_ok, <<>>, 1, 0)

Handled == {i \in 1..MaxTasks : tasks[i].pc \in {"handled", "responded"}}

RowData(row) ==
    <<row.symptoms, row.age, row.gender, row.conditions, row.recommendations>>

====
